---------------------------- MODULE Spec2Model ----------------------------
(***************************************************************************)
(* Fall-detection pipeline of backend/services/fall_detection:             *)
(*   yolo_service.detect_persons -> pipeline._is_suspect ->                *)
(*   pose_service.estimate_pose -> pipeline._confirm_fall,                 *)
(* driven per frame by FallDetectionPipeline.process_frame.                *)
(*                                                                         *)
(* Conventions of the model                                                *)
(*   - a bbox is the tuple <<x1, y1, x2, y2>> of integers (pixels);        *)
(*   - a keypoint is the tuple <<x, y>>;                                   *)
(*   - Python floats that are quotients of integers are kept as exact      *)
(*     fractions <<numerator, denominator>> (see Frac below);              *)
(*   - confidences are integers in units of 0.0005, and every confidence   *)
(*     that enters the pipeline is a multiple of 0.001 (an even number),   *)
(*     so the mean of two of them is again an integer;                     *)
(*   - Python's None is the value None; a Python call either returns a     *)
(*     value, Return(v), or raises an exception, Raise(e);                 *)
(*   - the 'timestamp' field of a frame result (a clock read) is left      *)
(*     out: nothing in the pipeline reads it.                              *)
(***************************************************************************)
EXTENDS Integers, Sequences, FiniteSets, TLC

VARIABLES
    op,            \* the function under call: "process_frame", "_is_suspect"
                   \* or "_confirm_fall"
    pc,            \* "call" (pending), "returned" or "raised"
    exc,           \* the exception the call raised ("" when none)
    model_loaded,  \* YoloService.model_loaded
    state_buffer,  \* FallDetectionPipeline.state_buffer
    in_camera_id,  \* process_frame's argument camera_id
    in_frame,      \* process_frame's argument frame: None or the frame's shape
    y_row,         \* the model output row of a direct detect_persons call:
                   \* [box |-> <<cx, cy, w, h>>, score, class_index]
    yolo_persons,  \* what detect_persons returned for the frame
    yolo_path,     \* the way detect_persons took: "mock" (no frame or no
                   \* model), "inference", or "raised" (the inference
                   \* raised); "" before the call
    pose_calls,    \* the estimate_pose calls made: <<[bbox, pose returned]>>
    out_results,   \* the FrameResult process_frame returned (None before)
    fall_events,   \* the FallEvent rows infer_frame has committed
    drawn,         \* the overlays read_frame has drawn on the frame from
                   \* that FrameResult (None before)
    s_bbox,        \* argument of a direct _is_suspect call
    s_out,         \* its outcome (None before)
    c_pose,        \* argument of a direct _confirm_fall call
    c_out,         \* its outcome (None before)
    in_view,       \* the scene before the cameras: the detections a frame
                   \* can hold and the most persons in view at once
    prev,          \* the process_frame call before the current one (None
                   \* when there was none): its camera, detector output,
                   \* pose calls and outcome
    active_streams, \* VideoStreamService.active_streams: url -> capture handle
    stream_locks,  \* VideoStreamService.stream_locks: url -> lock
    captures,      \* the cv2.VideoCapture objects made so far, by handle
                   \* number: [opened, released (count of release() calls)]
    locks,         \* the threading.Lock objects made so far, by lock number:
                   \* the thread that holds it, or "free"
    captured,      \* frames delivered by the camera so far (frames are
                   \* numbered in capture order)
    th,            \* the threads: position, locals and budget of each
    limits         \* how many calls the clients make: [calls, releases]

history_vars == <<in_view, prev>>

pipeline_vars ==
    <<op, pc, exc, model_loaded, state_buffer, in_camera_id, in_frame,
      y_row, yolo_persons, yolo_path, pose_calls, out_results, fall_events,
      drawn, s_bbox,
      s_out, c_pose, c_out, history_vars>>

stream_vars == <<active_streams, stream_locks, captures, locks, captured, th,
                 limits>>

vars == <<pipeline_vars, stream_vars>>

---------------------------------------------------------------------------
(* Python values *)

None == [py_none |-> TRUE]

Return(v) == [ret |-> v]

Raise(e) == [exc |-> e]

Returned(r) == "ret" \in DOMAIN r

Raised(r) == "exc" \in DOMAIN r

(* A float that is the quotient n / d of two integers, d # 0. *)
Frac(n, d) == <<n, d>>

Sign(d) == IF d > 0 THEN 1 ELSE -1

(* a > b for fractions a, b, by cross-multiplication. *)
FracGT(a, b) == Sign(a[2]) * Sign(b[2]) * (a[1] * b[2] - b[1] * a[2]) > 0

FracLT(a, b) == FracGT(b, a)

Abs(n) == IF n < 0 THEN -n ELSE n

---------------------------------------------------------------------------
(* Bounds *)

MaxPersons == 2

(* The most persons in view when several frames are processed in a row. *)
MaxPersonsInRow == 1

(* The most frames the clients of generate_frames ask for, all together. *)
MaxCalls == 2

(* The most release_stream / release_all calls made. *)
MaxReleases == 1

---------------------------------------------------------------------------
(* pipeline.py: the suspect filter *)

(* The filter with rule 2 (wide box) tried before rule 1 (box fills frame). *)
_is_suspect_wide_first(bbox) ==
    LET x1 == bbox[1]
        y1 == bbox[2]
        x2 == bbox[3]
        y2 == bbox[4]
        width == x2 - x1
        height == y2 - y1
    IN  IF height = 0 THEN Return(FALSE)
        ELSE
        LET aspect_ratio == Frac(width, height)
            center_y == Frac(y1 + y2, 2)
            box_area == width * height
            frame_area == 640 * 480
            box_percentage == Frac(box_area * 100, frame_area)
        IN  IF FracGT(aspect_ratio, Frac(15, 10)) THEN Return(TRUE)
            ELSE IF FracGT(box_percentage, Frac(50, 1)) /\ height > 250
                THEN Return(FALSE)
            ELSE IF /\ FracGT(center_y, Frac(300, 1))
                    /\ FracGT(aspect_ratio, Frac(6, 10))
                    /\ FracLT(aspect_ratio, Frac(14, 10))
                    /\ y2 > 380
                THEN Return(TRUE)
            ELSE IF height < 180 /\ y2 > 360 THEN Return(TRUE)
            ELSE Return(FALSE)

(* The filter with non-strict comparisons in rules 2 to 4. *)
_is_suspect_nonstrict(bbox) ==
    LET x1 == bbox[1]
        y1 == bbox[2]
        x2 == bbox[3]
        y2 == bbox[4]
        width == x2 - x1
        height == y2 - y1
    IN  IF height = 0 THEN Return(FALSE)
        ELSE
        LET aspect_ratio == Frac(width, height)
            center_y == Frac(y1 + y2, 2)
            box_area == width * height
            frame_area == 640 * 480
            box_percentage == Frac(box_area * 100, frame_area)
        IN  IF FracGT(box_percentage, Frac(50, 1)) /\ height > 250
                THEN Return(FALSE)
            ELSE IF ~FracLT(aspect_ratio, Frac(15, 10)) THEN Return(TRUE)
            ELSE IF /\ ~FracLT(center_y, Frac(300, 1))
                    /\ ~FracLT(aspect_ratio, Frac(6, 10))
                    /\ ~FracGT(aspect_ratio, Frac(14, 10))
                    /\ y2 >= 380
                THEN Return(TRUE)
            ELSE IF height <= 180 /\ y2 >= 360 THEN Return(TRUE)
            ELSE Return(FALSE)

(* The filter without the height == 0 guard: the division raises. *)
_is_suspect_unguarded(bbox) ==
    LET x1 == bbox[1]
        y1 == bbox[2]
        x2 == bbox[3]
        y2 == bbox[4]
        width == x2 - x1
        height == y2 - y1
    IN  IF height = 0 THEN Raise("ZeroDivisionError")
        ELSE
        LET aspect_ratio == Frac(width, height)
            center_y == Frac(y1 + y2, 2)
            box_area == width * height
            frame_area == 640 * 480
            box_percentage == Frac(box_area * 100, frame_area)
        IN  IF FracGT(box_percentage, Frac(50, 1)) /\ height > 250
                THEN Return(FALSE)
            ELSE IF FracGT(aspect_ratio, Frac(15, 10)) THEN Return(TRUE)
            ELSE IF /\ FracGT(center_y, Frac(300, 1))
                    /\ FracGT(aspect_ratio, Frac(6, 10))
                    /\ FracLT(aspect_ratio, Frac(14, 10))
                    /\ y2 > 380
                THEN Return(TRUE)
            ELSE IF height < 180 /\ y2 > 360 THEN Return(TRUE)
            ELSE Return(FALSE)

(* FallDetectionPipeline._is_suspect(bbox).  The frame is no argument: the  *)
(* frame area is the literal 640 * 480.                                    *)
_is_suspect(bbox) ==
    LET x1 == bbox[1]
        y1 == bbox[2]
        x2 == bbox[3]
        y2 == bbox[4]
        width == x2 - x1
        height == y2 - y1
    IN  IF height = 0 THEN Return(FALSE)
        ELSE
        LET aspect_ratio == Frac(width, height)
            center_y == Frac(y1 + y2, 2)
            box_area == width * height
            frame_area == 640 * 480
            box_percentage == Frac(box_area * 100, frame_area)
        IN  IF FracGT(box_percentage, Frac(50, 1)) /\ height > 250
                THEN Return(FALSE)
            ELSE IF FracGT(aspect_ratio, Frac(15, 10)) THEN Return(TRUE)
            ELSE IF /\ FracGT(center_y, Frac(300, 1))
                    /\ FracGT(aspect_ratio, Frac(6, 10))
                    /\ FracLT(aspect_ratio, Frac(14, 10))
                    /\ y2 > 380
                THEN Return(TRUE)
            ELSE IF height < 180 /\ y2 > 360 THEN Return(TRUE)
            ELSE Return(FALSE)

---------------------------------------------------------------------------
(* pipeline.py: fall confirmation *)

(* dict.get(key): the value, or None when the key is absent. *)
Get(d, key) == IF key \in DOMAIN d THEN d[key] ELSE "None"

(* Python truthiness of a pose value: None and the empty dict are falsy. *)
Truthy(pose_data) == DOMAIN pose_data # {} /\ pose_data # None

HasKeypoints(pose_data) ==
    {"nose", "left_hip", "right_hip"} \subseteq DOMAIN pose_data

(* Confirmation that takes an absent pose for a fall. *)
_confirm_fall_none_confirms(pose_data) ==
    IF ~Truthy(pose_data) THEN Return(TRUE)
    ELSE IF Get(pose_data, "orientation") = "horizontal" THEN Return(TRUE)
    ELSE IF ~HasKeypoints(pose_data) THEN Raise("KeyError")
    ELSE
    LET nose_y == pose_data.nose[2]
        hip_y == Frac(pose_data.left_hip[2] + pose_data.right_hip[2], 2)
    IN  IF Abs(nose_y * hip_y[2] - hip_y[1]) < 20 * hip_y[2]
            THEN Return(TRUE)
        ELSE Return(FALSE)

(* Confirmation that checks the head/hip distance before the orientation. *)
_confirm_fall_distance_first(pose_data) ==
    IF ~Truthy(pose_data) THEN Return(FALSE)
    ELSE IF ~HasKeypoints(pose_data) THEN Raise("KeyError")
    ELSE
    LET nose_y == pose_data.nose[2]
        hip_y == Frac(pose_data.left_hip[2] + pose_data.right_hip[2], 2)
    IN  IF Abs(nose_y * hip_y[2] - hip_y[1]) < 20 * hip_y[2]
            THEN Return(Get(pose_data, "orientation") = "horizontal")
        ELSE Return(FALSE)

(* Confirmation with a non-strict pixel threshold. *)
_confirm_fall_nonstrict(pose_data) ==
    IF ~Truthy(pose_data) THEN Return(FALSE)
    ELSE IF Get(pose_data, "orientation") = "horizontal" THEN Return(TRUE)
    ELSE IF ~HasKeypoints(pose_data) THEN Raise("KeyError")
    ELSE
    LET nose_y == pose_data.nose[2]
        hip_y == Frac(pose_data.left_hip[2] + pose_data.right_hip[2], 2)
    IN  IF Abs(nose_y * hip_y[2] - hip_y[1]) <= 20 * hip_y[2]
            THEN Return(TRUE)
        ELSE Return(FALSE)

(* FallDetectionPipeline._confirm_fall(pose_data).                         *)
(* abs(nose_y - hip_y) < 20 with hip_y = (left + right) / 2 is compared    *)
(* after multiplying both sides by the denominator 2.                      *)
_confirm_fall(pose_data) ==
    IF ~Truthy(pose_data) THEN Return(FALSE)
    ELSE IF Get(pose_data, "orientation") = "horizontal" THEN Return(TRUE)
    ELSE IF ~HasKeypoints(pose_data) THEN Raise("KeyError")
    ELSE
    LET nose_y == pose_data.nose[2]
        hip_y == Frac(pose_data.left_hip[2] + pose_data.right_hip[2], 2)
    IN  IF Abs(nose_y * hip_y[2] - hip_y[1]) < 20 * hip_y[2]
            THEN Return(TRUE)
        ELSE Return(FALSE)

---------------------------------------------------------------------------
(* yolo_service.py: the person detector *)

(* Confidences 0.85 + random() * 0.14 the mock draws (0.85 and 0.988). *)
MockConfidences == {1700, 1976}

(* A mock detector whose fixed box is a lying person. *)
_mock_detection_lying ==
    {<<[bbox |-> <<100, 300, 400, 380>>, confidence |-> c, class |-> "person"]>> :
        c \in MockConfidences}
    \cup {<<>>}

(* YoloService._mock_detection(): one fixed box, or nothing. *)
_mock_detection ==
    {<<[bbox |-> <<100, 100, 200, 300>>, confidence |-> c, class |-> "person"]>> :
        c \in MockConfidences}
    \cup {<<>>}

(* Boxes [left, top, width, height] that survive the score filter and NMS  *)
(* in the frames considered:                                               *)
(*   a standing person, a small flat box, a wide flat box, a box of height *)
(*   0, and a wide box that fills a 640x480 frame.                         *)
InferenceBoxes ==
    { <<100, 100, 100, 200>>, <<140, 280, 20, 10>>, <<100, 200, 300, 60>>,
      <<10, 10, 40, 0>>, <<0, 50, 640, 400>> }

(* cv2.dnn.NMSBoxes(boxes, scores, 0.5, 0.4) keeps a box only when its     *)
(* score is above the score threshold, 0.5 = 1000: a score of exactly 0.5  *)
(* passes the filter of line 74 and is dropped here.                       *)
nms_keeps_score(score) == score > 1000

(* Scores of kept boxes: 0.6 and 0.85. *)
InferenceScores == {score \in {1000, 1200, 1700} : nms_keeps_score(score)}

(* One entry of the detections list: bbox is [x, y, x + w, y + h]. *)
Detection(box, score) ==
    [bbox |-> <<box[1], box[2], box[1] + box[3], box[2] + box[4]>>,
     confidence |-> score,
     class |-> "person"]

Detections == {Detection(b, c) : b \in InferenceBoxes, c \in InferenceScores}

SeqsUpTo(S, n) == UNION {[1..k -> S] : k \in 0..n}

(* detect_persons: except Exception: return self._mock_detection() *)
inference_error == _mock_detection

(* YoloService.detect_persons(frame): the ways a call can go, each with    *)
(* the list it returns.  Without a frame or a model it is the mock;        *)
(* otherwise the inference's detections, or what the except clause gives   *)
(* when the inference raises.                                              *)
detect_calls(frame_) ==
    IF frame_ = None \/ ~model_loaded
        THEN {[path |-> "mock", persons |-> p] : p \in _mock_detection}
        ELSE {[path |-> "inference", persons |-> p] :
                 p \in SeqsUpTo(in_view.detections, in_view.persons)}
             \cup {[path |-> "raised", persons |-> p] : p \in inference_error}

(* The lists detect_persons(frame) can return. *)
detect_persons(frame_) == {call.persons : call \in detect_calls(frame_)}

(* Python int() of the quotient n / d, d > 0: truncation towards zero. *)
IntOf(n, d) == IF n >= 0 THEN n \div d ELSE -((-n) \div d)

(* Rows of the model output, in the 640x640 input space: box centre and    *)
(* size, best class score (0.4, 0.5 or 0.85) and its class index (0 is a   *)
(* person).                                                                *)
(* The boxes: a standing person; one a pixel high; one of width 0; one     *)
(* whose left edge falls left of the frame.                                *)
RowBoxes ==
    { <<320, 240, 100, 200>>, <<320, 240, 100, 1>>, <<320, 240, 0, 200>>,
      <<1, 240, 3, 200>> }

Rows ==
    [box : RowBoxes, score : {800, 1000, 1700}, class_index : {0, 1}]

(* detect_persons, line 74: the confidence and class filter, 0.5 = 1000. *)
passes_filter(row) == row.score >= 1000 /\ row.class_index = 0

(* detect_persons, lines 64-101, for a model output of one row: x_scale =  *)
(* img_w / 640, y_scale = img_h / 640, left/top/width/height by int(), the *)
(* box kept by the filter and by NMS, which has a single box to keep when  *)
(* its score is above the threshold, and returned as [x, y, x + w, y + h]. *)
row_detections(row, frame_) ==
    LET cx == row.box[1]
        cy == row.box[2]
        w == row.box[3]
        h == row.box[4]
        left == IntOf((2 * cx - w) * frame_.width, 2 * 640)
        top == IntOf((2 * cy - h) * frame_.height, 2 * 640)
        width == IntOf(w * frame_.width, 640)
        height == IntOf(h * frame_.height, 640)
    IN  IF passes_filter(row) /\ nms_keeps_score(row.score)
            THEN <<Detection(<<left, top, width, height>>, row.score)>>
            ELSE <<>>

---------------------------------------------------------------------------
(* pose_service.py: the pose estimator *)

FallenPose ==
    [nose |-> <<150, 280>>,
     left_shoulder |-> <<140, 280>>, right_shoulder |-> <<160, 280>>,
     left_hip |-> <<140, 285>>, right_hip |-> <<160, 285>>,
     left_ankle |-> <<140, 290>>, right_ankle |-> <<160, 290>>,
     orientation |-> "horizontal", confidence |-> 1800]

StandingPose ==
    [nose |-> <<150, 120>>,
     left_shoulder |-> <<140, 140>>, right_shoulder |-> <<160, 140>>,
     left_hip |-> <<145, 200>>, right_hip |-> <<155, 200>>,
     left_ankle |-> <<145, 280>>, right_ankle |-> <<155, 280>>,
     orientation |-> "vertical", confidence |-> 1900]

(* PoseService.estimate_pose(frame, bbox) as shipped: one of two poses,    *)
(* chosen at random, whatever the frame and the bbox.                      *)
estimate_pose == {FallenPose, StandingPose}

(* A vertical pose whose head is at hip level (|280 - 285| = 5). *)
CollapsedPose ==
    [nose |-> <<150, 280>>, left_hip |-> <<140, 285>>, right_hip |-> <<160, 285>>,
     orientation |-> "vertical", confidence |-> 1600]

(* A pose result without the keypoints the confirmation reads. *)
PartialPose == [orientation |-> "unknown", confidence |-> 1000]

(* The pose estimator as the pipeline's collaborator: the shipped poses,   *)
(* and what an estimator behind the same interface may hand back: no pose, *)
(* a collapsed vertical pose, a partial result.                            *)
PoseOutcomes == estimate_pose \cup {None, CollapsedPose, PartialPose}

---------------------------------------------------------------------------
(* pipeline.py: process_frame *)

(* The pose step runs for every detection. *)
pose_wanted_always(is_suspect) == TRUE

(* `if is_suspect:` -- the pose step runs for suspects only. *)
pose_wanted(is_suspect) == is_suspect

(* A confirmed fall sets the flag and leaves event_details alone. *)
record_fall_flag_only(results, confidence, bbox, pose_data) ==
    [results EXCEPT !.fall_detected = TRUE]

(* A confirmed fall is recorded only when none was recorded before. *)
record_fall_first_wins(results, confidence, bbox, pose_data) ==
    IF results.fall_detected THEN results
    ELSE [results EXCEPT
            !.fall_detected = TRUE,
            !.event_details =
                [confidence |-> (confidence + pose_data.confidence) \div 2,
                 bbox |-> bbox,
                 pose |-> pose_data]]

(* A confirmed fall is recorded with the detection's confidence alone. *)
record_fall_detection_confidence(results, confidence, bbox, pose_data) ==
    [results EXCEPT
        !.fall_detected = TRUE,
        !.event_details =
            [confidence |-> confidence,
             bbox |-> bbox,
             pose |-> pose_data]]

(* The two assignments made when _confirm_fall(pose_data) is true. *)
record_fall(results, confidence, bbox, pose_data) ==
    [results EXCEPT
        !.fall_detected = TRUE,
        !.event_details =
            [confidence |-> (confidence + pose_data.confidence) \div 2,
             bbox |-> bbox,
             pose |-> pose_data]]

(* Only suspect detections are kept in the detection list. *)
append_detection_suspects_only(results, detection_info) ==
    IF detection_info.is_suspect
        THEN [results EXCEPT !.detections = Append(@, detection_info)]
        ELSE results

(* results['detections'].append(detection_info) *)
append_detection(results, detection_info) ==
    [results EXCEPT !.detections = Append(@, detection_info)]

(* The FrameResult process_frame starts from. *)
new_results(camera_id) ==
    [camera_id |-> camera_id,
     detections |-> <<>>,
     fall_detected |-> FALSE,
     event_details |-> None]

(* `for person in persons:` from the i-th detection on.  pose_of[i] is     *)
(* what estimate_pose returns when it is invoked for the i-th detection.   *)
(* The value is [out |-> Return(results) or Raise(e), calls |-> the        *)
(* estimate_pose calls made].                                              *)
RECURSIVE for_person(_, _, _, _, _)
for_person(i, persons, pose_of, results, calls) ==
    IF i > Len(persons) THEN [out |-> Return(results), calls |-> calls]
    ELSE
    LET person == persons[i]
        bbox == person.bbox
        confidence == person.confidence
        suspect == _is_suspect(bbox)
    IN  IF Raised(suspect) THEN [out |-> suspect, calls |-> calls]
        ELSE
        LET is_suspect == suspect.ret
            invoked == pose_wanted(is_suspect)
            pose_data == IF invoked THEN pose_of[i] ELSE None
            calls2 == IF invoked
                        THEN Append(calls, [bbox |-> bbox, pose |-> pose_data])
                        ELSE calls
            detection_info ==
                [bbox |-> bbox, is_suspect |-> is_suspect, pose |-> pose_data]
            confirmed == IF invoked THEN _confirm_fall(pose_data) ELSE Return(FALSE)
        IN  IF Raised(confirmed) THEN [out |-> confirmed, calls |-> calls2]
            ELSE IF confirmed.ret /\ pose_data = None
                THEN [out |-> Raise("TypeError"), calls |-> calls2]
            ELSE IF confirmed.ret /\ "confidence" \notin DOMAIN pose_data
                THEN [out |-> Raise("KeyError"), calls |-> calls2]
            ELSE
            LET results2 == IF confirmed.ret
                              THEN record_fall(results, confidence, bbox, pose_data)
                              ELSE results
                results3 == append_detection(results2, detection_info)
            IN  for_person(i + 1, persons, pose_of, results3, calls2)

(* The detections of the frame the pose step runs for: pose_of needs a     *)
(* value for these and for no other.                                       *)
PoseIndices(persons) ==
    {i \in 1..Len(persons) :
        LET suspect == _is_suspect(persons[i].bbox)
        IN  Returned(suspect) /\ pose_wanted(suspect.ret)}

(* FallDetectionPipeline.process_frame(camera_id, frame), given what the   *)
(* detector returned for the frame and what the pose estimator returns.    *)
process_frame(camera_id, persons, pose_of) ==
    for_person(1, persons, pose_of, new_results(camera_id), <<>>)

---------------------------------------------------------------------------
(* Calls and their arguments *)

CameraIds == {"cam1", "cam2"}

(* infer_frame: FallEvent(camera_id=..., confidence=..., severity='High',  *)
(* status='New'); the row's id is its place in the table.                  *)
FallEvent(camera_id, confidence) ==
    [camera_id |-> camera_id, confidence |-> confidence,
     severity |-> "High", status |-> "New"]

(* The fall_events table when a request arrives: empty, or holding a row   *)
(* stored earlier, new or acknowledged.                                    *)
StoredEvents ==
    {<<>>} \cup
    {<<[FallEvent("cam1", 1700) EXCEPT !.status = status]>> :
        status \in {"New", "Acknowledged"}}

(* A frame is known by its shape; None is what /infer/frame passes. *)
Frames == {None, [width |-> 640, height |-> 480], [width |-> 1280, height |-> 960]}

(* Coordinates of the boxes _is_suspect is called on directly, around its  *)
(* thresholds.                                                             *)
XCoords == {0, 50, 100, 140, 350, 400, 590, 640}

YCoords == {0, 10, 50, 100, 200, 221, 260, 300, 360, 361, 380, 381, 400, 430, 450, 480}

BBoxes == {<<x1, y1, x2, y2>> : x1 \in {0, 50, 100}, y1 \in YCoords,
                                x2 \in XCoords, y2 \in YCoords}

(* The empty dict {}. *)
EmptyPose == [k \in {} |-> 0]

(* Poses _confirm_fall is called on directly. *)
NoseYs == {100, 120, 180, 181, 200, 220, 221, 280}

Poses ==
    { [nose |-> <<150, n>>, left_hip |-> <<140, l>>, right_hip |-> <<160, r>>,
       orientation |-> o, confidence |-> 1800] :
        n \in NoseYs, l \in {200, 285}, r \in {200, 201, 285},
        o \in {"horizontal", "vertical", "unknown"} }
    \cup PoseOutcomes
    \cup {[orientation |-> "horizontal", confidence |-> 1800], EmptyPose}


(* VideoStreamService.__init__: no stream, no lock; no thread has started. *)
StreamIdle ==
    /\ active_streams = <<>>
    /\ stream_locks = <<>>
    /\ captures = <<>>
    /\ locks = <<>>
    /\ captured = 0
    /\ th = <<>>
    /\ limits = <<>>

(* The services as constructed, and one call with its arguments. *)
Init ==
    /\ pc = "call"
    /\ exc = ""
    /\ model_loaded \in BOOLEAN
    /\ in_view = [detections |-> Detections, persons |-> MaxPersons]
    /\ prev = None
    /\ StreamIdle
    /\ state_buffer = <<>>
    /\ yolo_persons = <<>>
    /\ yolo_path = ""
    /\ pose_calls = <<>>
    /\ out_results = None
    /\ drawn = None
    /\ s_out = None
    /\ c_out = None
    /\ \/ /\ op = "process_frame"
          /\ in_camera_id \in CameraIds
          /\ in_frame \in Frames
          /\ y_row = None
          /\ s_bbox = None
          /\ c_pose = None
       \/ /\ op = "infer_frame"
          /\ in_camera_id \in CameraIds
          /\ in_frame = None
          /\ y_row = None
          /\ s_bbox = None
          /\ c_pose = None
       \/ /\ op = "acknowledge_event"
          /\ in_camera_id = None
          /\ in_frame = None
          /\ y_row = None
          /\ s_bbox = None
          /\ c_pose = None
       \/ /\ op = "detect_persons"
          /\ in_camera_id = None
          /\ in_frame \in Frames
          /\ y_row \in Rows
          /\ s_bbox = None
          /\ c_pose = None
       \/ /\ op = "_is_suspect"
          /\ s_bbox \in BBoxes
          /\ y_row = None
          /\ in_camera_id = None
          /\ in_frame = None
          /\ c_pose = None
       \/ /\ op = "_confirm_fall"
          /\ c_pose \in Poses
          /\ y_row = None
          /\ in_camera_id = None
          /\ in_frame = None
          /\ s_bbox = None
    /\ fall_events \in
          IF op \in {"infer_frame", "acknowledge_event"}
              THEN StoredEvents ELSE {<<>>}

(* A pipeline that debounces with state_buffer: a fall is reported only    *)
(* when the camera's previous frame held one too.                          *)
ProcessFrameDebounced ==
    /\ op = "process_frame"
    /\ pc = "call"
    /\ \E call \in detect_calls(in_frame) :
       \E pose_of \in [PoseIndices(call.persons) -> PoseOutcomes] :
          LET persons == call.persons
              r == process_frame(in_camera_id, persons, pose_of)
              before == IF in_camera_id \in DOMAIN state_buffer
                          THEN state_buffer[in_camera_id]
                          ELSE FALSE
              fall == Returned(r.out) /\ r.out.ret.fall_detected
          IN  /\ yolo_persons' = persons
              /\ yolo_path' = call.path
              /\ pose_calls' = r.calls
              /\ pc' = IF Returned(r.out) THEN "returned" ELSE "raised"
              /\ exc' = IF Returned(r.out) THEN "" ELSE r.out.exc
              /\ out_results' =
                    IF ~Returned(r.out) THEN None
                    ELSE IF before THEN r.out.ret
                    ELSE [r.out.ret EXCEPT !.fall_detected = FALSE,
                                           !.event_details = None]
              /\ state_buffer' =
                    [c \in DOMAIN state_buffer \cup {in_camera_id} |->
                        IF c = in_camera_id THEN fall ELSE state_buffer[c]]
    /\ UNCHANGED <<op, model_loaded, in_camera_id, in_frame, y_row, drawn,
                   s_bbox, s_out, c_pose, c_out, history_vars, stream_vars,
                   fall_events>>

(* fall_pipeline.process_frame(in_camera_id, in_frame) runs to its end. *)
ProcessFrame ==
    /\ op = "process_frame"
    /\ pc = "call"
    /\ \E call \in detect_calls(in_frame) :
       \E pose_of \in [PoseIndices(call.persons) -> PoseOutcomes] :
          LET persons == call.persons
              r == process_frame(in_camera_id, persons, pose_of)
          IN  /\ yolo_persons' = persons
              /\ yolo_path' = call.path
              /\ pose_calls' = r.calls
              /\ pc' = IF Returned(r.out) THEN "returned" ELSE "raised"
              /\ exc' = IF Returned(r.out) THEN "" ELSE r.out.exc
              /\ out_results' = IF Returned(r.out) THEN r.out.ret ELSE None
    /\ UNCHANGED <<op, model_loaded, state_buffer, in_camera_id, in_frame, y_row,
                   drawn, s_bbox, s_out, c_pose, c_out, history_vars,
                   stream_vars,
                   fall_events>>

(* fall_pipeline._is_suspect(s_bbox) *)
IsSuspect ==
    /\ op = "_is_suspect"
    /\ pc = "call"
    /\ s_out' = _is_suspect(s_bbox)
    /\ pc' = IF Returned(s_out') THEN "returned" ELSE "raised"
    /\ exc' = IF Returned(s_out') THEN "" ELSE s_out'.exc
    /\ UNCHANGED <<op, model_loaded, state_buffer, in_camera_id, in_frame, y_row,
                   yolo_persons, yolo_path, pose_calls, out_results, drawn,
                   s_bbox, c_pose, c_out, history_vars, stream_vars,
                   fall_events>>

(* fall_pipeline._confirm_fall(c_pose) *)
ConfirmFall ==
    /\ op = "_confirm_fall"
    /\ pc = "call"
    /\ c_out' = _confirm_fall(c_pose)
    /\ pc' = IF Returned(c_out') THEN "returned" ELSE "raised"
    /\ exc' = IF Returned(c_out') THEN "" ELSE c_out'.exc
    /\ UNCHANGED <<op, model_loaded, state_buffer, in_camera_id, in_frame, y_row,
                   yolo_persons, yolo_path, pose_calls, out_results, drawn,
                   s_bbox, s_out, c_pose, history_vars, stream_vars,
                   fall_events>>

(* routes/fall_detection.py infer_frame with camera_id = in_camera_id:     *)
(* process_frame(camera_id, None), and a FallEvent committed when the      *)
(* result says fall_detected.  What process_frame raises goes on to the    *)
(* web framework.                                                          *)
InferFrame ==
    /\ op = "infer_frame"
    /\ pc = "call"
    /\ \E call \in detect_calls(None) :
       \E pose_of \in [PoseIndices(call.persons) -> PoseOutcomes] :
          LET r == process_frame(in_camera_id, call.persons, pose_of)
              result == r.out.ret
          IN  /\ yolo_persons' = call.persons
              /\ yolo_path' = call.path
              /\ pose_calls' = r.calls
              /\ pc' = IF Returned(r.out) THEN "returned" ELSE "raised"
              /\ exc' = IF Returned(r.out) THEN "" ELSE r.out.exc
              /\ out_results' = IF Returned(r.out) THEN result ELSE None
              /\ fall_events' =
                    IF Returned(r.out) /\ result.fall_detected
                        THEN Append(fall_events,
                                    FallEvent(in_camera_id,
                                              result.event_details.confidence))
                        ELSE fall_events
    /\ UNCHANGED <<op, model_loaded, state_buffer, in_camera_id, in_frame,
                   y_row, drawn, s_bbox, s_out, c_pose, c_out, history_vars,
                   stream_vars>>

(* routes/fall_detection.py acknowledge_event(event_id): get_or_404, then  *)
(* event.status = 'Acknowledged' and commit.  An id with no row ends the   *)
(* request with NotFound.                                                  *)
AcknowledgeEvent ==
    /\ op = "acknowledge_event"
    /\ pc = "call"
    /\ \E event_id \in 1..(Len(fall_events) + 1) :
          IF event_id \in DOMAIN fall_events
              THEN /\ fall_events' =
                        [fall_events EXCEPT ![event_id].status = "Acknowledged"]
                   /\ pc' = "returned"
                   /\ exc' = ""
              ELSE /\ fall_events' = fall_events
                   /\ pc' = "raised"
                   /\ exc' = "NotFound"
    /\ UNCHANGED <<op, model_loaded, state_buffer, in_camera_id, in_frame,
                   y_row, yolo_persons, yolo_path, pose_calls, out_results,
                   drawn, s_bbox, s_out, c_pose, c_out, history_vars,
                   stream_vars>>

(* yolo_service.detect_persons(in_frame) on a model whose output for the   *)
(* frame is the single row y_row.                                          *)
DetectPersons ==
    /\ op = "detect_persons"
    /\ pc = "call"
    /\ \/ /\ in_frame = None \/ ~model_loaded
          /\ yolo_path' = "mock"
          /\ yolo_persons' \in _mock_detection
       \/ /\ in_frame # None /\ model_loaded
          /\ yolo_path' = "inference"
          /\ yolo_persons' = row_detections(y_row, in_frame)
       \/ /\ in_frame # None /\ model_loaded
          /\ yolo_path' = "raised"
          /\ yolo_persons' \in inference_error
    /\ pc' = "returned"
    /\ UNCHANGED <<op, exc, model_loaded, state_buffer, in_camera_id, in_frame,
                   y_row, pose_calls, out_results, drawn, s_bbox, s_out,
                   c_pose, c_out, history_vars, stream_vars,
                   fall_events>>

(* read_frame, lines 85-122: one box, label and aspect-ratio readout per   *)
(* detection of fall_result, red with "FALL DETECTED!" or green with       *)
(* "Person - Normal".                                                      *)
draw_overlays(fall_result) ==
    [i \in 1..Len(fall_result.detections) |->
        LET detection == fall_result.detections[i]
            is_suspect == IF "is_suspect" \in DOMAIN detection
                             THEN detection.is_suspect ELSE FALSE
            red == is_suspect \/ fall_result.fall_detected
        IN  [bbox |-> detection.bbox,
             color |-> IF red THEN "red" ELSE "green",
             label |-> IF red THEN "FALL DETECTED!" ELSE "Person - Normal"]]

(* read_frame after its process_frame(camera_url, frame) call returned:    *)
(* the overlays are drawn on the frame.                                    *)
Annotate ==
    /\ op = "process_frame"
    /\ pc = "returned"
    /\ in_frame # None
    /\ drawn = None
    /\ drawn' = [overlays |-> draw_overlays(out_results)]
    /\ UNCHANGED <<op, pc, exc, model_loaded, state_buffer, in_camera_id,
                   in_frame, y_row, yolo_persons, yolo_path, pose_calls, out_results,
                   s_bbox, s_out, c_pose, c_out, history_vars, stream_vars,
                   fall_events>>

Next ==
    \/ ProcessFrame
    \/ Annotate
    \/ InferFrame
    \/ AcknowledgeEvent
    \/ DetectPersons
    \/ IsSuspect
    \/ ConfirmFall

Spec == Init /\ [][Next]_vars

---------------------------------------------------------------------------
(* Frames processed in a row, as the stream loop and the /infer/frame      *)
(* route do: the same pipeline object serves every call.                   *)

InitFrames ==
    /\ op = "process_frame"
    /\ pc = "call"
    /\ exc = ""
    /\ model_loaded \in BOOLEAN
    /\ in_view = [detections |-> {d \in Detections : d.confidence = 1700},
                  persons |-> MaxPersonsInRow]
    /\ prev = None
    /\ StreamIdle
    /\ state_buffer = <<>>
    /\ in_camera_id \in CameraIds
    /\ in_frame \in Frames
    /\ yolo_persons = <<>>
    /\ yolo_path = ""
    /\ y_row = None
    /\ pose_calls = <<>>
    /\ out_results = None
    /\ drawn = None
    /\ fall_events = <<>>
    /\ s_bbox = None
    /\ s_out = None
    /\ c_pose = None
    /\ c_out = None

(* The next process_frame call is made, on any camera and frame; the call  *)
(* that just ended is remembered in prev.                                  *)
NextFrame ==
    /\ op = "process_frame"
    /\ pc # "call"
    /\ prev' = [camera_id |-> in_camera_id,
                persons |-> yolo_persons,
                calls |-> pose_calls,
                pc |-> pc,
                exc |-> exc,
                results |-> out_results]
    /\ in_camera_id' \in CameraIds
    /\ in_frame' \in Frames
    /\ y_row' = y_row
    /\ pc' = "call"
    /\ exc' = ""
    /\ yolo_persons' = <<>>
    /\ yolo_path' = ""
    /\ pose_calls' = <<>>
    /\ out_results' = None
    /\ drawn' = None
    /\ UNCHANGED <<op, model_loaded, state_buffer, in_view,
                   s_bbox, s_out, c_pose, c_out, stream_vars,
                   fall_events>>

NextFrames == ProcessFrame \/ NextFrame

SpecFrames == InitFrames /\ [][NextFrames]_vars

---------------------------------------------------------------------------
(* video_stream_service.py: VideoStreamService                             *)
(*                                                                         *)
(* routes/fall_detection.py serves generate_frames(camera.url) to every    *)
(* client of the stream endpoint and run.py starts the server with         *)
(* threaded=True, so several threads can run generate_frames on one URL;   *)
(* release_stream and release_all are public methods any thread can call.  *)
(* A thread's step is one statement of the source; statements that only    *)
(* touch the thread's locals are joined to the statement before them.  A   *)
(* capture read is two steps, its start and its end, because it blocks on  *)
(* the camera while other threads run.                                     *)
(* Handles, locks and frames are numbered from 1; 0 stands for None.       *)

Consumers == {"c1", "c2"}

Releasers == {"r1"}

Threads == Consumers \cup Releasers

(* "0" is a device index: get_stream opens cv2.VideoCapture(int("0")). *)
Urls == {"0"}

(* Python dict operations *)
DictGet(d, k) == IF k \in DOMAIN d THEN d[k] ELSE 0

DictSet(d, k, v) == [x \in DOMAIN d \cup {k} |-> IF x = k THEN v ELSE d[x]]

DictDel(d, k) ==
    IF DOMAIN d \ {k} = {} THEN <<>> ELSE [x \in DOMAIN d \ {k} |-> d[x]]

(* A thread before its first call: cap, stream, lock and frame are the     *)
(* locals of get_stream and read_frame, live tells whether the read in     *)
(* flight started on an unreleased handle, ret is what read_frame          *)
(* returned, yields what the generator has yielded so far.                 *)
NewThread ==
    [pc |-> "idle", url |-> "0", cap |-> 0, stream |-> 0, lock |-> 0,
     live |-> FALSE, frame |-> 0, ret |-> 0, calls |-> 0, yields |-> <<>>]

(* The locals of a call are gone when the call is over. *)
Rest(r) == [NewThread EXCEPT !.calls = r.calls, !.yields = r.yields]

(* Before the camera of the stream: a person standing or a person lying,  *)
(* one of them at most in a frame, detected with score 0.85.               *)
StreamScene ==
    {Detection(b, 1700) : b \in {<<100, 100, 100, 200>>, <<100, 200, 300, 60>>}}

(* The service as constructed, every thread idle, the pipeline not called  *)
(* on its own.                                                             *)
InitStreamWith(calls, releases) ==
    /\ active_streams = <<>>
    /\ stream_locks = <<>>
    /\ captures = <<>>
    /\ locks = <<>>
    /\ captured = 0
    /\ th = [t \in Threads |-> NewThread]
    /\ limits = [calls |-> calls, releases |-> releases]
    /\ op = "stream"
    /\ pc = "idle"
    /\ exc = ""
    /\ model_loaded = TRUE
    /\ in_view = [detections |-> StreamScene, persons |-> 1]
    /\ prev = None
    /\ state_buffer = <<>>
    /\ in_camera_id = "cam1"
    /\ in_frame = None
    /\ yolo_persons = <<>>
    /\ yolo_path = ""
    /\ y_row = None
    /\ pose_calls = <<>>
    /\ out_results = None
    /\ drawn = None
    /\ fall_events = <<>>
    /\ s_bbox = None
    /\ s_out = None
    /\ c_pose = None
    /\ c_out = None

InitStream == InitStreamWith(MaxCalls, MaxReleases)

(* Thread t goes on with its locals changed as in r. *)
Goto(t, r) == th' = [th EXCEPT ![t] = r]

(* read_frame returns v (0 for None); the generator is about to yield. *)
Returning(t, v) == [Rest(th[t]) EXCEPT !.pc = "gen", !.ret = v]

(* Leaving the "with lock" block of read_frame. *)
Unlock(t) == locks' = [locks EXCEPT ![th[t].lock] = "free"]

RECURSIVE CallsOf(_)
(* The calls the threads in T have made. *)
CallsOf(T) ==
    IF T = {} THEN 0
    ELSE LET t == CHOOSE x \in T : TRUE IN th[t].calls + CallsOf(T \ {t})

(* next() on the generator: generate_frames calls                          *)
(* read_frame(camera_url), which calls get_stream(camera_url).             *)
Request(t) ==
    /\ th[t].pc = "idle"
    /\ CallsOf(Consumers) < limits.calls
    /\ Goto(t, [th[t] EXCEPT !.pc = "gs_check", !.calls = @ + 1])
    /\ UNCHANGED <<active_streams, stream_locks, captures, locks, captured,
                   limits, pipeline_vars>>

(* get_stream: if camera_url not in self.active_streams *)
GsCheck(t) ==
    /\ th[t].pc = "gs_check"
    /\ Goto(t, [th[t] EXCEPT !.pc = IF th[t].url \in DOMAIN active_streams
                                       THEN "gs_ret" ELSE "gs_open"])
    /\ UNCHANGED <<active_streams, stream_locks, captures, locks, captured,
                   limits, pipeline_vars>>

(* get_stream: cap = cv2.VideoCapture(...); if not cap.isOpened(): return  *)
(* None; ret, test_frame = cap.read(); if that fails, cap.release() and    *)
(* return None.  The constructor can also raise, which the except clause   *)
(* turns into None.  No other thread can reach cap before it is            *)
(* registered, so a capture that fails here is not kept in captures; the   *)
(* test frame is thrown away and not numbered.                             *)
GsOpen(t) ==
    /\ th[t].pc = "gs_open"
    /\ \E outcome \in {"opened", "closed", "no_test_frame", "raised"} :
          IF outcome = "opened"
              THEN /\ captures' = Append(captures, [released |-> 0])
                   /\ Goto(t, [th[t] EXCEPT !.pc = "gs_reg",
                                            !.cap = Len(captures) + 1])
              ELSE /\ Goto(t, Returning(t, 0))
                   /\ UNCHANGED captures
    /\ UNCHANGED <<active_streams, stream_locks, locks, captured, limits,
                   pipeline_vars>>

(* get_stream: self.active_streams[camera_url] = cap *)
GsRegister(t) ==
    /\ th[t].pc = "gs_reg"
    /\ active_streams' = DictSet(active_streams, th[t].url, th[t].cap)
    /\ Goto(t, [th[t] EXCEPT !.pc = "gs_lock", !.cap = 0])
    /\ UNCHANGED <<stream_locks, captures, locks, captured, limits,
                   pipeline_vars>>

(* get_stream: self.stream_locks[camera_url] = threading.Lock() *)
GsNewLock(t) ==
    /\ th[t].pc = "gs_lock"
    /\ locks' = Append(locks, "free")
    /\ stream_locks' = DictSet(stream_locks, th[t].url, Len(locks) + 1)
    /\ Goto(t, [th[t] EXCEPT !.pc = "gs_ret"])
    /\ UNCHANGED <<active_streams, captures, captured, limits, pipeline_vars>>

(* get_stream: return self.active_streams.get(camera_url); read_frame:     *)
(* if not stream: return None.                                             *)
GsReturn(t) ==
    /\ th[t].pc = "gs_ret"
    /\ LET stream == DictGet(active_streams, th[t].url)
       IN  Goto(t, IF stream = 0
                       THEN Returning(t, 0)
                       ELSE [th[t] EXCEPT !.pc = "rf_lock", !.stream = stream])
    /\ UNCHANGED <<active_streams, stream_locks, captures, locks, captured,
                   limits, pipeline_vars>>

(* read_frame: lock = self.stream_locks.get(camera_url); if not lock:      *)
(* return None.                                                            *)
RfGetLock(t) ==
    /\ th[t].pc = "rf_lock"
    /\ LET lock == DictGet(stream_locks, th[t].url)
       IN  Goto(t, IF lock = 0
                       THEN Returning(t, 0)
                       ELSE [th[t] EXCEPT !.pc = "rf_acquire", !.lock = lock])
    /\ UNCHANGED <<active_streams, stream_locks, captures, locks, captured,
                   limits, pipeline_vars>>

(* A read starts on the thread's handle. *)
StartRead(r) == [r EXCEPT !.live = captures[r.stream].released = 0]

(* read_frame: with lock: the thread waits until the lock is free, takes   *)
(* it and starts ret, frame = stream.read().                               *)
RfAcquire(t) ==
    /\ th[t].pc = "rf_acquire"
    /\ locks[th[t].lock] = "free"
    /\ locks' = [locks EXCEPT ![th[t].lock] = t]
    /\ Goto(t, StartRead([th[t] EXCEPT !.pc = "reading1"]))
    /\ UNCHANGED <<active_streams, stream_locks, captures, captured, limits,
                   pipeline_vars>>

(* What a read that is ending can give: a frame, no frame, or an           *)
(* exception.  A read started on a released handle gives no frame; one     *)
(* that overlaps a release can end in any way.                             *)
ReadOutcomes(t) ==
    IF th[t].live THEN {"frame", "no_frame", "raised"} ELSE {"no_frame"}

(* A read ended with a frame, the next one in capture order: the           *)
(* processing of read_frame starts.                                        *)
GotFrame(t) ==
    /\ captured' = captured + 1
    /\ Goto(t, [th[t] EXCEPT !.pc = "process", !.frame = captured + 1,
                             !.live = FALSE])
    /\ UNCHANGED locks

(* A read raised and None is returned with the lock still held. *)
ReadRaisedLocked(t) ==
    /\ Goto(t, Returning(t, 0))
    /\ UNCHANGED <<locks, captured>>

(* A read raised: except Exception: return None, the lock released by the  *)
(* with block.                                                             *)
ReadRaised(t) ==
    /\ Goto(t, Returning(t, 0))
    /\ Unlock(t)
    /\ UNCHANGED captured

(* A read_frame that gives the stream up after the first failed read. *)
ReadEnd1NoRetry(t) ==
    /\ th[t].pc = "reading1"
    /\ \E outcome \in ReadOutcomes(t) :
          CASE outcome = "frame" -> GotFrame(t)
            [] outcome = "no_frame" ->
                  /\ Goto(t, [th[t] EXCEPT !.pc = "fail_release",
                                           !.live = FALSE])
                  /\ UNCHANGED <<locks, captured>>
            [] outcome = "raised" -> ReadRaised(t)
    /\ UNCHANGED <<active_streams, stream_locks, captures, limits,
                   pipeline_vars>>

(* read_frame: the first stream.read() ends.  Without a frame the thread   *)
(* goes to time.sleep(0.01), holding the lock with no read in flight.      *)
ReadEnd1(t) ==
    /\ th[t].pc = "reading1"
    /\ \E outcome \in ReadOutcomes(t) :
          CASE outcome = "frame" -> GotFrame(t)
            [] outcome = "no_frame" ->
                  /\ Goto(t, [th[t] EXCEPT !.pc = "retry_sleep",
                                           !.live = FALSE])
                  /\ UNCHANGED <<locks, captured>>
            [] outcome = "raised" -> ReadRaised(t)
    /\ UNCHANGED <<active_streams, stream_locks, captures, limits,
                   pipeline_vars>>

(* read_frame: the sleep is over and the second stream.read() starts, on   *)
(* the handle as it is by then.                                            *)
ReadRetry(t) ==
    /\ th[t].pc = "retry_sleep"
    /\ Goto(t, StartRead([th[t] EXCEPT !.pc = "reading2"]))
    /\ UNCHANGED <<active_streams, stream_locks, captures, locks, captured,
                   limits, pipeline_vars>>

(* read_frame: the second stream.read() ends.  Without a frame the stream  *)
(* is given up.                                                            *)
ReadEnd2(t) ==
    /\ th[t].pc = "reading2"
    /\ \E outcome \in ReadOutcomes(t) :
          CASE outcome = "frame" -> GotFrame(t)
            [] outcome = "no_frame" ->
                  /\ Goto(t, [th[t] EXCEPT !.pc = "fail_release",
                                           !.live = FALSE])
                  /\ UNCHANGED <<locks, captured>>
            [] outcome = "raised" -> ReadRaised(t)
    /\ UNCHANGED <<active_streams, stream_locks, captures, limits,
                   pipeline_vars>>

(* read_frame, after two failed reads: stream.release() *)
FailRelease(t) ==
    /\ th[t].pc = "fail_release"
    /\ captures' = [captures EXCEPT ![th[t].stream].released = @ + 1]
    /\ Goto(t, [th[t] EXCEPT !.pc = "fail_check"])
    /\ UNCHANGED <<active_streams, stream_locks, locks, captured, limits,
                   pipeline_vars>>

(* read_frame: if camera_url in self.active_streams; otherwise return None *)
FailCheck(t) ==
    /\ th[t].pc = "fail_check"
    /\ IF th[t].url \in DOMAIN active_streams
           THEN /\ Goto(t, [th[t] EXCEPT !.pc = "fail_del"])
                /\ UNCHANGED locks
           ELSE /\ Goto(t, Returning(t, 0))
                /\ Unlock(t)
    /\ UNCHANGED <<active_streams, stream_locks, captures, captured, limits,
                   pipeline_vars>>

(* A failure path that returns None with the url still registered. *)
FailKeep(t) ==
    /\ th[t].pc = "fail_del"
    /\ Goto(t, Returning(t, 0))
    /\ Unlock(t)
    /\ UNCHANGED <<active_streams, stream_locks, captures, captured, limits,
                   pipeline_vars>>

(* read_frame: del self.active_streams[camera_url]; return None.  If the   *)
(* entry went away since the check, del raises KeyError and the except     *)
(* clause returns None.                                                    *)
FailDel(t) ==
    /\ th[t].pc = "fail_del"
    /\ IF th[t].url \in DOMAIN active_streams
           THEN /\ active_streams' = DictDel(active_streams, th[t].url)
                /\ Goto(t, Returning(t, 0))
           ELSE /\ UNCHANGED active_streams
                /\ Goto(t, Returning(t, 0))
    /\ Unlock(t)
    /\ UNCHANGED <<stream_locks, captures, captured, limits, pipeline_vars>>

(* The frames the stream delivers: get_stream asks the camera for 640x480. *)
StreamFrame == [width |-> 640, height |-> 480]

(* A read_frame without the except clause: what process_frame raises goes *)
(* on to the caller, the with block releasing the lock on the way.         *)
ProcessUncaught(t) ==
    /\ th[t].pc = "process"
    /\ \E call \in detect_calls(StreamFrame) :
       \E pose_of \in [PoseIndices(call.persons) -> PoseOutcomes] :
          LET r == process_frame(th[t].url, call.persons, pose_of)
          IN  Goto(t, IF Returned(r.out)
                          THEN Returning(t, th[t].frame)
                          ELSE [Rest(th[t]) EXCEPT !.pc = "crashed"])
    /\ Unlock(t)
    /\ UNCHANGED <<active_streams, stream_locks, captures, captured, limits,
                   pipeline_vars>>

(* read_frame: fall_pipeline.process_frame(camera_url, frame) and the      *)
(* drawing end; return frame, or None from the except clause when          *)
(* something raised; the with block releases the lock.                     *)
Process(t) ==
    /\ th[t].pc = "process"
    /\ \E call \in detect_calls(StreamFrame) :
       \E pose_of \in [PoseIndices(call.persons) -> PoseOutcomes] :
          LET r == process_frame(th[t].url, call.persons, pose_of)
          IN  Goto(t, IF Returned(r.out)
                          THEN Returning(t, th[t].frame)
                          ELSE Returning(t, 0))
    /\ Unlock(t)
    /\ UNCHANGED <<active_streams, stream_locks, captures, captured, limits,
                   pipeline_vars>>

(* _create_error_frame(): the "Camera Unavailable" picture, which is no    *)
(* numbered frame.                                                         *)
ErrorFrame == -1

(* What generate_frames encodes: if frame is None: frame =                 *)
(* self._create_error_frame().                                             *)
Shown(frame) == IF frame = 0 THEN ErrorFrame ELSE frame

(* A generator that shows its last frame again when read_frame gives None. *)
YieldStale(t) ==
    /\ th[t].pc = "gen"
    /\ Goto(t, [Rest(th[t]) EXCEPT
                   !.yields = Append(@, IF th[t].ret = 0 /\ Len(@) > 0
                                            THEN @[Len(@)]
                                            ELSE Shown(th[t].ret))])
    /\ UNCHANGED <<active_streams, stream_locks, captures, locks, captured,
                   limits, pipeline_vars>>

(* A generator that ends when read_frame gives None. *)
YieldOrStop(t) ==
    /\ th[t].pc = "gen"
    /\ Goto(t, IF th[t].ret = 0
                   THEN [Rest(th[t]) EXCEPT !.pc = "stopped"]
                   ELSE [Rest(th[t]) EXCEPT !.yields = Append(@, th[t].ret)])
    /\ UNCHANGED <<active_streams, stream_locks, captures, locks, captured,
                   limits, pipeline_vars>>

(* generate_frames: the frame is encoded and yielded; the generator then   *)
(* rests until the next request.  cv2.imencode is taken to succeed on      *)
(* these well-formed pictures.                                             *)
Yield(t) ==
    /\ th[t].pc = "gen"
    /\ Goto(t, [Rest(th[t]) EXCEPT !.yields = Append(@, Shown(th[t].ret))])
    /\ UNCHANGED <<active_streams, stream_locks, captures, locks, captured,
                   limits, pipeline_vars>>

(* A thread calls release_stream(camera_url). *)
ReleaseStream(t) ==
    /\ th[t].pc = "idle"
    /\ CallsOf(Releasers) < limits.releases
    /\ Goto(t, [Rest(th[t]) EXCEPT !.pc = "rs_check", !.calls = @ + 1])
    /\ UNCHANGED <<active_streams, stream_locks, captures, locks, captured,
                   limits, pipeline_vars>>

(* A thread calls release_all(): release_stream for every url in           *)
(* list(self.active_streams.keys()).                                       *)
ReleaseAll(t) ==
    /\ th[t].pc = "idle"
    /\ CallsOf(Releasers) < limits.releases
    /\ Goto(t, [Rest(th[t]) EXCEPT
                   !.pc = IF th[t].url \in DOMAIN active_streams
                              THEN "rs_check" ELSE "idle",
                   !.calls = @ + 1])
    /\ UNCHANGED <<active_streams, stream_locks, captures, locks, captured,
                   limits, pipeline_vars>>

(* release_stream: if camera_url in self.active_streams *)
RsCheck(t) ==
    /\ th[t].pc = "rs_check"
    /\ Goto(t, IF th[t].url \in DOMAIN active_streams
                   THEN [th[t] EXCEPT !.pc = "rs_release"] ELSE Rest(th[t]))
    /\ UNCHANGED <<active_streams, stream_locks, captures, locks, captured,
                   limits, pipeline_vars>>

(* release_stream: self.active_streams[camera_url].release(); KeyError     *)
(* goes to the caller if the entry went away since the check.              *)
RsRelease(t) ==
    /\ th[t].pc = "rs_release"
    /\ IF th[t].url \in DOMAIN active_streams
           THEN LET stream == active_streams[th[t].url]
                IN  /\ captures' = [captures EXCEPT ![stream].released = @ + 1]
                    /\ Goto(t, [th[t] EXCEPT !.pc = "rs_del",
                                             !.stream = stream])
           ELSE /\ UNCHANGED captures
                /\ Goto(t, Rest(th[t]))
    /\ UNCHANGED <<active_streams, stream_locks, locks, captured, limits,
                   pipeline_vars>>

(* release_stream: del self.active_streams[camera_url] *)
RsDel(t) ==
    /\ th[t].pc = "rs_del"
    /\ IF th[t].url \in DOMAIN active_streams
           THEN /\ active_streams' = DictDel(active_streams, th[t].url)
                /\ Goto(t, [th[t] EXCEPT !.pc = "rs_locks"])
           ELSE /\ UNCHANGED active_streams
                /\ Goto(t, Rest(th[t]))
    /\ UNCHANGED <<stream_locks, captures, locks, captured, limits,
                   pipeline_vars>>

(* release_stream: if camera_url in self.stream_locks: del                 *)
(* self.stream_locks[camera_url].  Only release_stream deletes locks and   *)
(* one thread calls it here, so the check and the del are one step.        *)
RsDelLock(t) ==
    /\ th[t].pc = "rs_locks"
    /\ stream_locks' = DictDel(stream_locks, th[t].url)
    /\ Goto(t, Rest(th[t]))
    /\ UNCHANGED <<active_streams, captures, locks, captured, limits,
                   pipeline_vars>>

(* One step of a client of generate_frames after its request. *)
ConsumerStep(t) ==
    \/ GsCheck(t)
    \/ GsOpen(t)
    \/ GsRegister(t)
    \/ GsNewLock(t)
    \/ GsReturn(t)
    \/ RfGetLock(t)
    \/ ReadEnd1(t)
    \/ ReadRetry(t)
    \/ ReadEnd2(t)
    \/ FailRelease(t)
    \/ FailCheck(t)
    \/ FailDel(t)
    \/ Process(t)
    \/ Yield(t)

ReleaserStep(t) ==
    \/ ReleaseStream(t)
    \/ ReleaseAll(t)
    \/ RsCheck(t)
    \/ RsRelease(t)
    \/ RsDel(t)
    \/ RsDelLock(t)

NextStream ==
    \/ \E t \in Consumers : Request(t) \/ RfAcquire(t) \/ ConsumerStep(t)
    \/ \E t \in Releasers : ReleaserStep(t)

SpecStream == InitStream /\ [][NextStream]_vars

(* The same service with the threads of the server scheduled fairly: a     *)
(* thread inside read_frame or generate_frames that can take its next step *)
(* takes it, and a thread waiting for a lock that becomes free again and   *)
(* again gets it.  Clients are not obliged to ask for frames, nor anyone   *)
(* to release streams.                                                     *)
FairSpecStream ==
    /\ SpecStream
    /\ \A t \in Consumers :
          WF_vars(ConsumerStep(t)) /\ SF_vars(RfAcquire(t))

---------------------------------------------------------------------------
(* Vocabulary of the properties *)

FrameReturned == op = "process_frame" /\ pc = "returned"

FrameEnded == op = "process_frame" /\ pc # "call"

Height(bbox) == bbox[4] - bbox[2]

(* The indices of the returned detections that are suspect and whose pose  *)
(* confirms a fall.                                                        *)
ConfirmedFalls ==
    {i \in 1..Len(out_results.detections) :
        /\ out_results.detections[i].is_suspect
        /\ _confirm_fall(out_results.detections[i].pose) = Return(TRUE)}

(* The event details process_frame builds for the i-th detection. *)
EventOf(i) ==
    [confidence |-> (yolo_persons[i].confidence
                        + out_results.detections[i].pose.confidence) \div 2,
     bbox |-> yolo_persons[i].bbox,
     pose |-> out_results.detections[i].pose]

SetMin(S) == CHOOSE m \in S : \A n \in S : m <= n

SetMax(S) == CHOOSE m \in S : \A n \in S : m >= n

---------------------------------------------------------------------------
(* C1: every FrameResult process_frame returns has fall_detected = True    *)
(* exactly when event_details is not None.                                 *)
C1_FallIffEventDetails ==
    FrameReturned =>
        (out_results.fall_detected <=> out_results.event_details # None)

(* A frame of two detections was processed and a fall reported. *)
C1_Witness ==
    /\ FrameReturned
    /\ Len(out_results.detections) = 2
    /\ out_results.fall_detected
    /\ out_results.event_details # None

---------------------------------------------------------------------------
(* C2 as stated: with two or more confirmed falls in one frame, the event  *)
(* details are those of the first confirmed detection in detector order.   *)
C2_FirstConfirmedWins ==
    (FrameReturned /\ Cardinality(ConfirmedFalls) >= 2) =>
        out_results.event_details = EventOf(SetMin(ConfirmedFalls))

(* C2 amended: with two or more confirmed falls in one frame, the event    *)
(* details are those of the last confirmed detection in detector order:    *)
(* every later confirmed fall overwrites event_details.                    *)
C2_LastConfirmedWins ==
    (FrameReturned /\ Cardinality(ConfirmedFalls) >= 2) =>
        /\ out_results.fall_detected
        /\ out_results.event_details = EventOf(SetMax(ConfirmedFalls))

(* Two confirmed falls with different boxes in one returned frame. *)
C2_Witness ==
    /\ FrameReturned
    /\ Cardinality(ConfirmedFalls) >= 2
    /\ EventOf(SetMin(ConfirmedFalls)).bbox # EventOf(SetMax(ConfirmedFalls)).bbox
    /\ out_results.event_details.bbox = EventOf(SetMax(ConfirmedFalls)).bbox

---------------------------------------------------------------------------
(* C3: estimate_pose is invoked only on bboxes the suspect filter accepts; *)
(* so in a returned FrameResult a detection with a pose is suspect and a   *)
(* non-suspect detection has pose None.                                    *)
C3_PoseOnlyForSuspects ==
    FrameEnded =>
        /\ \A k \in 1..Len(pose_calls) :
              _is_suspect(pose_calls[k].bbox) = Return(TRUE)
        /\ pc = "returned" =>
              \A i \in 1..Len(out_results.detections) :
                 LET d == out_results.detections[i]
                 IN  /\ d.pose # None => d.is_suspect
                     /\ ~d.is_suspect => d.pose = None

(* A returned frame with a non-suspect detection and a suspect one that    *)
(* got a pose.                                                             *)
C3_Witness ==
    /\ FrameReturned
    /\ Len(pose_calls) = 1
    /\ \E i, j \in 1..Len(out_results.detections) :
          /\ ~out_results.detections[i].is_suspect
          /\ out_results.detections[i].pose = None
          /\ out_results.detections[j].is_suspect
          /\ out_results.detections[j].pose # None

---------------------------------------------------------------------------
(* C4: _confirm_fall(None) returns False; so a frame in which every pose   *)
(* estimate came back None is returned without a fall and without event    *)
(* details, and the pose recorded in any event details is never None.      *)
C4_NoPoseNoFall ==
    /\ (op = "_confirm_fall" /\ pc # "call" /\ c_pose = None) =>
          c_out = Return(FALSE)
    /\ (FrameEnded /\ \A k \in 1..Len(pose_calls) : pose_calls[k].pose = None) =>
          /\ pc = "returned"
          /\ ~out_results.fall_detected
          /\ out_results.event_details = None
    /\ (FrameReturned /\ out_results.event_details # None) =>
          out_results.event_details.pose # None

(* A returned frame with a suspect detection whose pose is None. *)
C4_Witness ==
    /\ FrameReturned
    /\ \E i \in 1..Len(out_results.detections) :
          /\ out_results.detections[i].is_suspect
          /\ out_results.detections[i].pose = None
    /\ \A k \in 1..Len(pose_calls) : pose_calls[k].pose = None
    /\ ~out_results.fall_detected

---------------------------------------------------------------------------
(* C5: for a pose whose orientation is 'horizontal', _confirm_fall returns *)
(* True whatever the keypoints are.                                        *)
C5_HorizontalConfirms ==
    (/\ op = "_confirm_fall"
     /\ pc # "call"
     /\ c_pose # None
     /\ Get(c_pose, "orientation") = "horizontal") =>
        c_out = Return(TRUE)

(* A horizontal pose with nose and hips 185 pixels apart was confirmed. *)
C5_Witness ==
    /\ op = "_confirm_fall"
    /\ pc = "returned"
    /\ c_pose # None
    /\ Get(c_pose, "orientation") = "horizontal"
    /\ HasKeypoints(c_pose)
    /\ c_pose.nose[2] = 100
    /\ c_pose.left_hip[2] = 285
    /\ c_pose.right_hip[2] = 285
    /\ c_out = Return(TRUE)

---------------------------------------------------------------------------
(* C6: for a pose with the nose and hip keypoints whose orientation is not *)
(* 'horizontal', _confirm_fall returns True exactly when                   *)
(* |nose.y - (left_hip.y + right_hip.y) / 2| < 20, strictly.               *)
C6_HeadHipDistance ==
    (/\ op = "_confirm_fall"
     /\ pc # "call"
     /\ c_pose # None
     /\ HasKeypoints(c_pose)
     /\ Get(c_pose, "orientation") # "horizontal") =>
        LET twice == 2 * c_pose.nose[2] - (c_pose.left_hip[2] + c_pose.right_hip[2])
        IN  /\ (twice > -40 /\ twice < 40) => c_out = Return(TRUE)
            /\ (twice <= -40 \/ twice >= 40) => c_out = Return(FALSE)

(* A vertical pose with the nose exactly 20 pixels above the hips was not  *)
(* confirmed.                                                              *)
C6_Witness ==
    /\ op = "_confirm_fall"
    /\ pc = "returned"
    /\ c_pose # None
    /\ HasKeypoints(c_pose)
    /\ Get(c_pose, "orientation") = "vertical"
    /\ c_pose.nose[2] = 180
    /\ c_pose.left_hip[2] = 200
    /\ c_pose.right_hip[2] = 200
    /\ c_out = Return(FALSE)

---------------------------------------------------------------------------
(* The rules of the suspect filter as the specification words them, for a  *)
(* bbox of non-zero height on a frame of frame_width x frame_height.       *)

BoxFillsFrame(bbox, frame_width, frame_height) ==
    LET width == bbox[3] - bbox[1]
        height == bbox[4] - bbox[2]
    IN  /\ width * height * 100 > 50 * frame_width * frame_height
        /\ height > 250

WideBox(bbox) ==
    FracGT(Frac(bbox[3] - bbox[1], bbox[4] - bbox[2]), Frac(3, 2))

LowSquareBox(bbox) ==
    LET aspect_ratio == Frac(bbox[3] - bbox[1], bbox[4] - bbox[2])
    IN  /\ bbox[2] + bbox[4] > 2 * 300
        /\ FracGT(aspect_ratio, Frac(3, 5))
        /\ FracLT(aspect_ratio, Frac(7, 5))
        /\ bbox[4] > 380

LowShortBox(bbox) == Height(bbox) < 180 /\ bbox[4] > 360

SuspectByRules(bbox, frame_width, frame_height) ==
    /\ ~BoxFillsFrame(bbox, frame_width, frame_height)
    /\ WideBox(bbox) \/ LowSquareBox(bbox) \/ LowShortBox(bbox)

SuspectEnded == op = "_is_suspect" /\ pc # "call"

---------------------------------------------------------------------------
(* C7: on a 640x480 frame, for a bbox of non-zero height, _is_suspect      *)
(* returns True exactly when rule 1 does not hold and one of the wide-box, *)
(* low-square-box, low-short-box rules holds, and False otherwise.         *)
C7_SuspectRules ==
    (SuspectEnded /\ Height(s_bbox) # 0) =>
        s_out = Return(SuspectByRules(s_bbox, 640, 480))

(* A box that only the low-square-box rule accepts was found suspect. *)
C7_Witness ==
    /\ SuspectEnded
    /\ Height(s_bbox) # 0
    /\ ~BoxFillsFrame(s_bbox, 640, 480)
    /\ ~WideBox(s_bbox)
    /\ ~LowShortBox(s_bbox)
    /\ LowSquareBox(s_bbox)
    /\ s_out = Return(TRUE)

---------------------------------------------------------------------------
(* C8: rule 1 short-circuits: a bbox with box_percentage > 50 and height   *)
(* > 250 is not suspect even when a later rule accepts it; bbox            *)
(* (50,50,590,430) is not suspect.                                         *)
C8_RuleOneFirst ==
    /\ (SuspectEnded /\ BoxFillsFrame(s_bbox, 640, 480)) => s_out = Return(FALSE)
    /\ (SuspectEnded /\ s_bbox = <<50, 50, 590, 430>>) => s_out = Return(FALSE)

(* A box that fills the frame and is wider than 1.5 times its height was   *)
(* found not suspect.                                                      *)
C8_Witness ==
    /\ SuspectEnded
    /\ BoxFillsFrame(s_bbox, 640, 480)
    /\ WideBox(s_bbox)
    /\ s_out = Return(FALSE)

---------------------------------------------------------------------------
(* C9: for a bbox of height 0 _is_suspect returns False and does not       *)
(* raise; process_frame records such a detection with is_suspect = False   *)
(* and pose = None, and never asks for its pose.                           *)
C9_ZeroHeight ==
    /\ (SuspectEnded /\ Height(s_bbox) = 0) =>
          (pc = "returned" /\ s_out = Return(FALSE))
    /\ FrameEnded =>
          /\ exc # "ZeroDivisionError"
          /\ \A k \in 1..Len(pose_calls) : Height(pose_calls[k].bbox) # 0
    /\ FrameReturned =>
          \A i \in 1..Len(yolo_persons) :
             Height(yolo_persons[i].bbox) = 0 =>
                out_results.detections[i] =
                    [bbox |-> yolo_persons[i].bbox,
                     is_suspect |-> FALSE,
                     pose |-> None]

(* A returned frame that held a detection of height 0. *)
C9_Witness ==
    /\ FrameReturned
    /\ \E i \in 1..Len(yolo_persons) :
          /\ Height(yolo_persons[i].bbox) = 0
          /\ ~out_results.detections[i].is_suspect

---------------------------------------------------------------------------
(* C10 as stated: the suspect decision recorded for a detection is taken   *)
(* against the area of the frame being processed (frame_width x            *)
(* frame_height of that frame).                                            *)
C10_OwnFrameArea ==
    (FrameReturned /\ in_frame # None) =>
        \A i \in 1..Len(out_results.detections) :
           Height(out_results.detections[i].bbox) # 0 =>
              out_results.detections[i].is_suspect =
                  SuspectByRules(out_results.detections[i].bbox,
                                 in_frame.width, in_frame.height)

---------------------------------------------------------------------------
(* C11: when a fall is reported, event_details holds the bbox and the pose *)
(* of one detection of the frame and, as confidence, the mean of that      *)
(* detection's confidence and that pose's confidence; detection 0.85 with  *)
(* the horizontal pose of confidence 0.9 on bbox (140,280,160,290) gives   *)
(* 0.875.                                                                  *)
C11_MeanConfidence ==
    /\ (FrameReturned /\ out_results.fall_detected) =>
          \E i \in 1..Len(yolo_persons) :
             /\ out_results.event_details.bbox = yolo_persons[i].bbox
             /\ out_results.event_details.pose = out_results.detections[i].pose
             /\ 2 * out_results.event_details.confidence =
                   yolo_persons[i].confidence
                     + out_results.event_details.pose.confidence
    /\ (/\ FrameEnded
        /\ Len(yolo_persons) = 1
        /\ yolo_persons[1].bbox = <<140, 280, 160, 290>>
        /\ yolo_persons[1].confidence = 1700
        /\ pose_calls = <<[bbox |-> <<140, 280, 160, 290>>, pose |-> FallenPose]>>) =>
          /\ pc = "returned"
          /\ out_results.fall_detected
          /\ out_results.event_details.confidence = 1750

(* The end-to-end scenario: one detection (140,280,160,290) at 0.85 whose  *)
(* pose is horizontal at 0.9 was reported as a fall at 0.875.              *)
C11_Witness ==
    /\ FrameReturned
    /\ Len(yolo_persons) = 1
    /\ yolo_persons[1].bbox = <<140, 280, 160, 290>>
    /\ yolo_persons[1].confidence = 1700
    /\ out_results.fall_detected
    /\ out_results.event_details.pose = FallenPose
    /\ out_results.event_details.confidence = 1750

---------------------------------------------------------------------------
(* C12: the detections of a FrameResult are one DetectionInfo per          *)
(* detection the detector returned, in the detector's order and with the   *)
(* detector's bbox, suspect or not, confirmed or not.                      *)
C12_OneInfoPerDetection ==
    FrameReturned =>
        /\ Len(out_results.detections) = Len(yolo_persons)
        /\ \A i \in 1..Len(yolo_persons) :
              out_results.detections[i].bbox = yolo_persons[i].bbox

(* A returned frame of two detections with different boxes, the first not  *)
(* suspect and the second a confirmed fall.                                *)
C12_Witness ==
    /\ FrameReturned
    /\ Len(yolo_persons) = 2
    /\ yolo_persons[1].bbox # yolo_persons[2].bbox
    /\ ~out_results.detections[1].is_suspect
    /\ out_results.detections[2].is_suspect
    /\ out_results.fall_detected

---------------------------------------------------------------------------
(* What detect_persons returns is marked as mock output: it carries a mode *)
(* flag, or at least it is a list the real inference cannot return.        *)
MarkedAsMock(persons) ==
    \/ persons \notin SeqsUpTo(Detections, MaxPersons)
    \/ /\ persons # <<>>
       /\ \A i \in 1..Len(persons) :
             {"mock", "mode", "degraded"} \cap DOMAIN persons[i] # {}

(* C20 as stated: with no model loaded, process_frame completes without an *)
(* exception and what detect_persons returned is marked as degraded/mock,  *)
(* distinguishable from the output of a real inference.                    *)
C20_MockOutputMarked ==
    (FrameEnded /\ ~model_loaded) =>
        /\ pc = "returned"
        /\ MarkedAsMock(yolo_persons)

---------------------------------------------------------------------------
(* The part of a FrameResult C13 speaks of. *)
Verdict(results) ==
    IF results = None THEN None
    ELSE [detections |-> results.detections,
          fall_detected |-> results.fall_detected,
          event_details |-> results.event_details]

(* C13: process_frame keeps no state across frames: state_buffer stays     *)
(* empty, and a frame that gets the same detector output and the same pose *)
(* outputs as the frame before it ends the same way, with the same         *)
(* detections, fall_detected and event_details, whatever the two cameras.  *)
C13_NoCrossFrameState ==
    /\ state_buffer = <<>>
    /\ (/\ FrameEnded
        /\ prev # None
        /\ prev.persons = yolo_persons
        /\ prev.calls = pose_calls) =>
          /\ prev.pc = pc
          /\ prev.exc = exc
          /\ Verdict(prev.results) = Verdict(out_results)

(* Two frames in a row, on different cameras, with the same detector and   *)
(* pose outputs, both reported as a fall.                                  *)
C13_Witness ==
    /\ FrameReturned
    /\ prev # None
    /\ prev.camera_id # in_camera_id
    /\ prev.persons = yolo_persons
    /\ prev.calls = pose_calls
    /\ out_results.fall_detected
    /\ prev.results.fall_detected

---------------------------------------------------------------------------
(* Vocabulary of the stream properties *)

(* Thread t has a read in flight on its handle. *)
Reading(t) == th[t].pc \in {"reading1", "reading2"}

(* Thread t is in the read section of read_frame: reading its handle,      *)
(* between its two reads, or running process_frame on the frame it read.   *)
InReadSection(t) == Reading(t) \/ th[t].pc \in {"retry_sleep", "process"}

(* Thread t, in release_stream, invokes release() on a handle in this step. *)
ReleaseStreamReleases(t) == th[t].pc = "rs_release" /\ th'[t].pc = "rs_del"

(* Thread t is at a statement of release_stream that raises KeyError: the  *)
(* subscript or the del of an entry that is gone.                          *)
ReleaseStreamRaises(t) ==
    /\ th[t].pc \in {"rs_release", "rs_del"}
    /\ th[t].url \notin DOMAIN active_streams

(* C14: at most one thread at a time is reading a camera's capture handle  *)
(* or running process_frame on one of its frames, whatever the             *)
(* interleaving of the read_frame calls on that camera's url.              *)
C14_SingleReader ==
    \A a \in Consumers : \A b \in Consumers :
        (a # b /\ InReadSection(a) /\ InReadSection(b))
            => th[a].url # th[b].url

(* C15: release_stream and release_all never invoke release() on a handle  *)
(* while a read of that handle is in flight.                               *)
C15_NoReleaseDuringRead ==
    [][\A t \in Releasers :
          ReleaseStreamReleases(t)
              => ~ \E c \in Consumers :
                      Reading(c) /\ th[c].stream = th'[t].stream]_vars

(* C16: release() is never invoked a second time on a capture handle,      *)
(* whatever the interleaving of release_stream, release_all and the        *)
(* repeated-read-failure path, and release_stream raises no error.         *)
C16_ReleasedExactlyOnce ==
    /\ \A h \in DOMAIN captures : captures[h].released <= 1
    /\ \A t \in Releasers : ~ReleaseStreamRaises(t)

(* C17: within one read_frame call a failed read is followed by exactly    *)
(* one more read; a frame from the retry is processed with the handle left *)
(* registered and unreleased; read_frame releases the handle only after    *)
(* the second read failed, and then the url is out of active_streams when  *)
(* None is returned, which the generator yields as the placeholder.        *)
C17_RetryOnce ==
    [][\A t \in Consumers :
          LET a == th[t]
              b == th'[t]
          IN  /\ (a.pc = "reading1" /\ b.pc # "reading1")
                    => b.pc \in {"process", "retry_sleep", "gen"}
              /\ (a.pc = "retry_sleep" /\ b.pc # "retry_sleep")
                    => b.pc = "reading2"
              /\ (a.pc = "reading2" /\ b.pc # "reading2")
                    => b.pc \in {"process", "fail_release", "gen"}
              /\ (a.pc # "fail_release" /\ b.pc = "fail_release")
                    => a.pc = "reading2"
              /\ (a.pc = "reading2" /\ b.pc = "process")
                    => /\ b.frame > 0
                       /\ active_streams' = active_streams
                       /\ captures' = captures
              /\ (a # b /\ captures' # captures /\ Len(captures') = Len(captures))
                    => /\ a.pc = "fail_release"
                       /\ captures'[a.stream].released
                             = captures[a.stream].released + 1
              /\ (a.pc \in {"fail_check", "fail_del"} /\ b.pc = "gen")
                    => /\ b.ret = 0
                       /\ a.url \notin DOMAIN active_streams'
                       /\ captures[a.stream].released >= 1
              /\ (a.pc = "gen" /\ a.ret = 0 /\ b.pc = "idle")
                    => b.yields = Append(a.yields, ErrorFrame)]_vars

(* Two reads in a row have failed in a read_frame call, which has released *)
(* its handle and is about to unregister it.                               *)
C17_Witness ==
    \E t \in Consumers :
        /\ th[t].pc = "fail_del"
        /\ captures[th[t].stream].released = 1
        /\ active_streams[th[t].url] = th[t].stream

(* C18: generate_frames does not end on its own: when read_frame returns   *)
(* None the generator yields the placeholder for that iteration and is     *)
(* ready for the next one, and every request for a frame is eventually     *)
(* answered by a yield.                                                    *)
C18_AlwaysAnswers ==
    /\ [][\A t \in Consumers :
             (th[t].pc = "gen" /\ th[t].ret = 0 /\ th'[t].pc # "gen")
                 => /\ th'[t].pc = "idle"
                    /\ th'[t].yields = Append(th[t].yields, ErrorFrame)]_vars
    /\ \A t \in Consumers :
          (Len(th[t].yields) < th[t].calls)
              ~> (th[t].pc = "idle" /\ Len(th[t].yields) = th[t].calls)

(* A client was shown the placeholder and then got an answer to its next   *)
(* request.                                                                *)
C18_Witness ==
    \E t \in Consumers :
        /\ Len(th[t].yields) = 2
        /\ th[t].yields[1] = ErrorFrame
        /\ th[t].pc = "idle"

(* The frames of the camera a client has been yielded, in the order of the *)
(* yields, placeholders left out.                                          *)
RealFrames(t) == SelectSeq(th[t].yields, LAMBDA f : f # ErrorFrame)

(* C19: the frames a client of generate_frames is yielded come in capture  *)
(* order, each frame later in the capture sequence than the one yielded    *)
(* before it, so none is yielded twice; and the frame being processed in   *)
(* read_frame is later than all of them.                                   *)
C19_CaptureOrder ==
    \A t \in Consumers :
        LET frames == RealFrames(t)
        IN  /\ \A i \in DOMAIN frames : \A j \in DOMAIN frames :
                  i < j => frames[i] < frames[j]
            /\ th[t].frame > 0
                  => \A i \in DOMAIN frames : frames[i] < th[t].frame

(* A client has been yielded two frames of the camera. *)
C19_Witness == \E t \in Consumers : Len(RealFrames(t)) = 2

---------------------------------------------------------------------------
(* C21 as stated: when the inference raises inside detect_persons, the     *)
(* call returns an empty list, and process_frame returns a FrameResult     *)
(* with no detections and fall_detected False.                             *)
C21_ErrorMeansNoDetections ==
    (FrameEnded /\ yolo_path = "raised") =>
        /\ pc = "returned"
        /\ yolo_persons = <<>>
        /\ out_results.detections = <<>>
        /\ ~out_results.fall_detected

(* The i-th detection of the FrameResult is a confirmed fall. *)
FallConfirmed(i) ==
    LET detection == out_results.detections[i]
        confirmed == _confirm_fall(detection.pose)
    IN  detection.is_suspect /\ Returned(confirmed) /\ confirmed.ret

(* C24 as stated: on the annotated frame each detection's box is red and   *)
(* labelled "FALL DETECTED!" exactly when that detection is suspect or     *)
(* fall-confirmed, and green and labelled "Person - Normal" otherwise.     *)
C24_RedIffSuspectOrConfirmed ==
    drawn # None =>
        \A i \in DOMAIN drawn.overlays :
            LET overlay == drawn.overlays[i]
                alarming == out_results.detections[i].is_suspect
                              \/ FallConfirmed(i)
            IN  /\ overlay.bbox = out_results.detections[i].bbox
                /\ alarming => /\ overlay.color = "red"
                               /\ overlay.label = "FALL DETECTED!"
                /\ ~alarming => /\ overlay.color = "green"
                                /\ overlay.label = "Person - Normal"

---------------------------------------------------------------------------
DetectEnded == op = "detect_persons" /\ pc = "returned"

(* C23 as stated: every detection detect_persons returns has a bbox        *)
(* (x1, y1, x2, y2) with x2 > x1 and y2 > y1.                              *)
C23_BoxHasArea ==
    DetectEnded =>
        \A i \in DOMAIN yolo_persons :
            LET bbox == yolo_persons[i].bbox
            IN  bbox[3] > bbox[1] /\ bbox[4] > bbox[2]

---------------------------------------------------------------------------
(* C22: whatever is raised by a frame read or by process_frame inside      *)
(* read_frame ends the call with None (or the call goes on to its          *)
(* failure path), the lock the thread held free again; a call that got     *)
(* through process_frame returns its frame; and the generator yields what  *)
(* it was given, the placeholder for None, and is ready for the next       *)
(* frame.                                                                  *)
C22_NoExceptionEscapes ==
    [][\A t \in Consumers :
          LET a == th[t]
              b == th'[t]
          IN  /\ (Reading(t) /\ b.pc \notin {"reading1", "reading2"})
                    => \/ b.pc \in {"process", "retry_sleep", "fail_release"}
                       \/ /\ b.pc = "gen"
                          /\ b.ret = 0
                          /\ locks'[a.lock] = "free"
              /\ (a.pc = "process" /\ b.pc # "process")
                    => /\ b.pc = "gen"
                       /\ b.ret \in {0, a.frame}
                       /\ locks'[a.lock] = "free"
              /\ (a.pc = "gen" /\ b.pc # "gen")
                    => /\ b.pc = "idle"
                       /\ b.yields = Append(a.yields, Shown(a.ret))]_vars

(* process_frame has raised in a read_frame call: the call has returned    *)
(* None after a frame was read for it, with the lock free and the handle   *)
(* still registered and unreleased.                                        *)
C22_Witness ==
    \E t \in Consumers :
        /\ th[t].pc = "gen"
        /\ th[t].ret = 0
        /\ captured = 1
        /\ Len(locks) = 1
        /\ locks[1] = "free"
        /\ Len(captures) = 1
        /\ captures[1].released = 0
        /\ \A u \in Threads \ {t} : th[u].pc = "idle" /\ th[u].calls = 0

---------------------------------------------------------------------------
(* A process_frame call, direct or from infer_frame, has ended. *)
PipelineEnded == op \in {"process_frame", "infer_frame"} /\ pc # "call"

(* C25: when detect_persons took its mock path (no model, no frame, or the *)
(* inference raised), process_frame returns with no detection suspect, no  *)
(* pose, fall_detected False and no event details, and infer_frame, which  *)
(* always passes frame None, is on that path and leaves the fall_events    *)
(* table as it found it.                                                   *)
C25_MockNeverFalls ==
    /\ []((PipelineEnded /\ yolo_path \in {"mock", "raised"}) =>
             /\ pc = "returned"
             /\ pose_calls = <<>>
             /\ ~out_results.fall_detected
             /\ out_results.event_details = None
             /\ Len(out_results.detections) = Len(yolo_persons)
             /\ \A i \in DOMAIN out_results.detections :
                   /\ out_results.detections[i].bbox = <<100, 100, 200, 300>>
                   /\ ~out_results.detections[i].is_suspect
                   /\ out_results.detections[i].pose = None)
    /\ []((op = "infer_frame" /\ pc # "call") => yolo_path = "mock")
    /\ [][op = "infer_frame" => fall_events' = fall_events]_vars

(* infer_frame has answered from a mock detection. *)
C25_Witness ==
    /\ op = "infer_frame"
    /\ pc = "returned"
    /\ yolo_path = "mock"
    /\ Len(out_results.detections) = 1
    /\ Len(fall_events) = 1

---------------------------------------------------------------------------
(* Handle h is the one registered under some url. *)
Registered(h) == \E u \in DOMAIN active_streams : active_streams[u] = h

(* Handle h has been opened by a get_stream call that is about to register *)
(* it.                                                                     *)
BeingRegistered(h) ==
    \E t \in Consumers : th[t].pc = "gs_reg" /\ th[t].cap = h

(* C26: every capture handle that was opened and on which release() has    *)
(* not been called is registered in active_streams, or is on its way from  *)
(* the open to the registration in get_stream: no handle is overwritten in *)
(* or deleted from the registry unreleased.                                *)
C26_NoHandleLeak ==
    \A h \in DOMAIN captures :
        captures[h].released = 0 => Registered(h) \/ BeingRegistered(h)

(* C27: read_frame never starts a read on a handle on which release() has  *)
(* been called: every read in flight started on an unreleased handle.      *)
C27_NoUseAfterRelease ==
    \A t \in Consumers : Reading(t) => th[t].live

(* Thread t is at the lock lookup of read_frame, which answers 'No lock    *)
(* available' when the url has no entry in stream_locks.                   *)
AtLockLookup(t) == th[t].pc = "rf_lock"

(* C28: every url in active_streams has an entry in stream_locks, and a    *)
(* read_frame call that got a handle from get_stream finds a lock.         *)
C28_RegisteredHasLock ==
    /\ DOMAIN active_streams \subseteq DOMAIN stream_locks
    /\ \A t \in Consumers :
          AtLockLookup(t) => th[t].url \in DOMAIN stream_locks

---------------------------------------------------------------------------
(* Thread t's read_frame call returns from its repeated-failure path in    *)
(* this step.                                                              *)
GivesUp(t) == th[t].pc \in {"fail_check", "fail_del"} /\ th'[t].pc = "gen"

(* C29: when read_frame returns after two failed reads the url is out of   *)
(* active_streams; a read_frame call that finds the url unregistered goes  *)
(* on to open the camera; a camera that opens and delivers its test frame  *)
(* is a new, unreleased handle and is registered under the url; and a      *)
(* frame read from it is yielded as it is, not as the placeholder.         *)
C29_Recovery ==
    [][\A t \in Consumers :
          LET a == th[t]
              b == th'[t]
          IN  /\ GivesUp(t) => a.url \notin DOMAIN active_streams'
              /\ (a.pc = "gs_check" /\ b.pc # "gs_check"
                    /\ a.url \notin DOMAIN active_streams)
                    => b.pc = "gs_open"
              /\ (a.pc = "gs_open" /\ b.pc = "gs_reg")
                    => /\ b.cap \notin DOMAIN captures
                       /\ b.cap \in DOMAIN captures'
                       /\ captures'[b.cap].released = 0
              /\ (a.pc = "gs_reg" /\ b.pc # "gs_reg")
                    => /\ a.url \in DOMAIN active_streams'
                       /\ active_streams'[a.url] = a.cap
              /\ (a.pc = "gen" /\ a.ret # 0 /\ b.pc # "gen")
                    => /\ a.ret # ErrorFrame
                       /\ b.yields = Append(a.yields, a.ret)]_vars

(* A client was shown the placeholder because its camera was given up      *)
(* after two failed reads, and its next request, with nobody having called *)
(* release_stream, re-opened the camera and was answered with a frame.     *)
C29_Witness ==
    \E t \in Consumers :
        /\ CallsOf(Releasers) = 0
        /\ Len(captures) = 2
        /\ captures[1].released = 1
        /\ captures[2].released = 0
        /\ DictGet(active_streams, th[t].url) = 2
        /\ th[t].pc = "idle"
        /\ Len(th[t].yields) = 2
        /\ th[t].yields[1] = ErrorFrame
        /\ th[t].yields[2] # ErrorFrame

---------------------------------------------------------------------------
(* Thread t is inside the "with lock" block of read_frame. *)
InWithBlock(t) ==
    th[t].pc \in {"reading1", "retry_sleep", "reading2", "fail_release",
                  "fail_check", "fail_del", "process"}

(* Thread t is inside a read_frame call. *)
InReadFrame(t) == th[t].pc \notin {"idle", "gen"}

(* C30: a lock is held only by a thread inside the with block of the       *)
(* read_frame call that took it, so a call that has returned, with a       *)
(* frame, after the repeated read failure or after an exception, holds no  *)
(* lock; and with the threads scheduled fairly every thread waiting for a  *)
(* lock gets it and every read_frame call returns.                         *)
C30_LockReleased ==
    /\ [](\A l \in DOMAIN locks :
             locks[l] # "free"
                 => /\ locks[l] \in Consumers
                    /\ InWithBlock(locks[l])
                    /\ th[locks[l]].lock = l)
    /\ \A t \in Consumers :
          /\ (th[t].pc = "rf_acquire") ~> InWithBlock(t)
          /\ InReadFrame(t) ~> (th[t].pc = "gen")

(* A thread has taken the lock that another call held through its two      *)
(* failed reads and released on returning.                                 *)
C30_Witness ==
    \E t \in Consumers : \E u \in Consumers \ {t} :
        /\ th[t].pc = "reading1"
        /\ Len(locks) = 1
        /\ locks[1] = t
        /\ th[u].pc \in {"gen", "idle"}
        /\ th[u].calls = 1
        /\ Len(captures) = 1
        /\ captures[1].released = 1
        /\ CallsOf(Releasers) = 0

====
